---- MODULE Spec2Model ----
(***************************************************************************)
(* Shape-, device- and storage-level model of src/model.py: the forward    *)
(* passes of Generator and Discriminator and of the blocks they are built  *)
(* from.  A tensor is represented by its shape (a sequence of naturals)    *)
(* and the device that holds it; every library operator is modelled by the *)
(* shape it returns or the error it raises.  One action per statement of   *)
(* Generator.forward and Discriminator.forward.                            *)
(***************************************************************************)
EXTENDS Naturals, Integers, Sequences, FiniteSets, TLC

VARIABLES
    num_speakers,    \* Generator/Discriminator.__init__ argument
    cuda_available,  \* torch.cuda.is_available() when the module was built
    weights_device,  \* device holding the module's parameters
    strict_norm,     \* the build's instance_norm verifies the spatial size
    net,             \* which module's forward is running: "G" or "D"
    pc,              \* index of the next statement of forward
    args,            \* the caller's x, c, c_ (shapes and devices)
    x,               \* shape bound to the local name x
    x_in,            \* shape that the last executed statement received
    x_alias,         \* storage the local name x refers to
    c_onehot,        \* shape bound to the local name c_onehot
    aux,             \* D: shape of h (sum pooling); G: unused (<<>>)
    status,          \* "idle", "running", "returned", "raised"
    err,             \* kind of the raised error, "none" otherwise
    out,             \* shape of the returned tensor
    applied,         \* G: indices of the residual blocks applied so far
    mutated          \* caller-visible objects written in place so far

vars == <<num_speakers, cuda_available, weights_device, strict_norm, net, pc,
          args, x, x_in, x_alias, c_onehot, aux, status, err, out, applied,
          mutated>>

----------------------------------------------------------------------------
(* Bounds of the exploration.                                              *)

MaxSpeakers == 2
MaxBatch == 3
MaxHeight == 72
MaxWidth == 12

----------------------------------------------------------------------------
(* Results of library operators: a shape, or the kind of error raised.     *)

Ok(s) == [err |-> "none", shape |-> s]
Fail(kind) == [err |-> kind, shape |-> <<>>]
IsOk(r) == r.err = "none"
Then(r, Op(_)) == IF IsOk(r) THEN Op(r.shape) ELSE r

RECURSIVE Numel(_)
Numel(s) == IF s = <<>> THEN 1 ELSE Head(s) * Numel(Tail(s))

Max(a, b) == IF a >= b THEN a ELSE b

\* Broadcasting of two shapes (element-wise *, /, +, -), right-aligned.
PadLeft(s, n) == [i \in 1..n |-> IF i <= n - Len(s) THEN 1 ELSE s[i - (n - Len(s))]]
Broadcast(a, b) ==
    LET n == Max(Len(a), Len(b))
        pa == PadLeft(a, n)
        pb == PadLeft(b, n)
    IN IF \A i \in 1..n : pa[i] = pb[i] \/ pa[i] = 1 \/ pb[i] = 1
       THEN Ok([i \in 1..n |-> IF pa[i] = 1 THEN pb[i] ELSE pa[i]])
       ELSE Fail("shape")

\* Output length of a convolution along one axis; 0 when the kernel does not fit.
ConvOutSizeNoPad(n, k, s, p) == IF n < k THEN 0 ELSE ((n - k) \div s) + 1
ConvOutSize(n, k, s, p) == IF n + 2 * p < k THEN 0 ELSE ((n + 2 * p - k) \div s) + 1

\* nn.Conv2d(in_channels, out_channels, kernel_size, stride, padding)
Conv2d(s, cin, cout, kh, kw, sh, sw, ph, pw) ==
    IF Len(s) # 4 \/ s[2] # cin THEN Fail("shape")
    ELSE LET h == ConvOutSize(s[3], kh, sh, ph)
             w == ConvOutSize(s[4], kw, sw, pw)
         IN IF h = 0 \/ w = 0 THEN Fail("shape") ELSE Ok(<<s[1], cout, h, w>>)

\* nn.Conv1d(in_channels, out_channels, kernel_size, stride, padding)
Conv1d(s, cin, cout, k, st, p) ==
    IF Len(s) # 3 \/ s[2] # cin THEN Fail("shape")
    ELSE LET t == ConvOutSize(s[3], k, st, p)
         IN IF t = 0 THEN Fail("shape") ELSE Ok(<<s[1], cout, t>>)

\* nn.ConvTranspose2d(in_channels, out_channels, kernel_size, stride, padding)
ConvTransposeOutSize(n, k, s, p) ==
    IF (n - 1) * s + k <= 2 * p THEN 0 ELSE (n - 1) * s + k - 2 * p
ConvTranspose2d(s, cin, cout, k, st, p) ==
    IF Len(s) # 4 \/ s[2] # cin THEN Fail("shape")
    ELSE LET h == ConvTransposeOutSize(s[3], k, st, p)
             w == ConvTransposeOutSize(s[4], k, st, p)
         IN IF h = 0 \/ w = 0 THEN Fail("shape") ELSE Ok(<<s[1], cout, h, w>>)

\* Whether nn.InstanceNorm keeps running statistics (track_running_stats is
\* not passed at any construction site, so the library default applies).
TrackRunningStats == FALSE

\* nn.InstanceNorm1d / nn.InstanceNorm2d(num_features, affine=True): keeps the
\* shape.  The statistics are always taken from the input, and builds whose
\* instance_norm verifies the spatial size raise ValueError ("Expected more
\* than 1 spatial element") when the map has a single spatial element.
InstanceNorm(s, num_features, strict) ==
    IF Len(s) < 3 \/ s[2] # num_features THEN Fail("shape")
    ELSE IF strict /\ Numel(SubSeq(s, 3, Len(s))) = 1 THEN Fail("spatial")
    ELSE Ok(s)

\* nn.GLU(dim=1): halves the channels.
GLU(s) ==
    IF Len(s) < 2 \/ s[2] % 2 # 0 THEN Fail("shape")
    ELSE Ok([s EXCEPT ![2] = s[2] \div 2])

\* nn.PixelShuffle(r)
PixelShuffle(s, r) ==
    IF Len(s) # 4 \/ s[2] % (r * r) # 0 THEN Fail("shape")
    ELSE Ok(<<s[1], s[2] \div (r * r), s[3] * r, s[4] * r>>)

\* nn.Linear(in_features, out_features)
Linear(s, fin, fout) ==
    IF Len(s) = 0 \/ s[Len(s)] # fin THEN Fail("shape")
    ELSE Ok([s EXCEPT ![Len(s)] = fout])

\* Tensor.view(-1, d2, ..., dn): the leading dimension is inferred.
ViewInfer(s, rest) ==
    LET known == Numel(rest)
    IN IF known = 0 \/ Numel(s) % known # 0 THEN Fail("shape")
       ELSE Ok(<<Numel(s) \div known>> \o rest)

\* torch.cat((c, c_), dim=1) of two 2-D tensors.
Cat1SameWidth(a, b) ==
    IF Len(a) # 2 \/ Len(b) # 2 \/ a # b THEN Fail("shape")
    ELSE Ok(<<a[1], a[2] + b[2]>>)
Cat1(a, b) ==
    IF Len(a) # 2 \/ Len(b) # 2 \/ a[1] # b[1] THEN Fail("shape")
    ELSE Ok(<<a[1], a[2] + b[2]>>)

\* torch.mean(x, dim=2, keepdim=True)
MeanDim2Keep(s) == [s EXCEPT ![3] = 1]

\* torch.sum(x_, dim=(2, 3))
SumPoolKeepDim(s) == <<s[1], s[2], 1, 1>>
SumPool(s) == <<s[1], s[2]>>

\* torch.sum(t, dim=1, keepdim=True)
SumDim1Keep(s) == [s EXCEPT ![2] = 1]

\* out[:, :, : -1, :]
KeepAllRows(s) == s
DropLastRow(s) == [s EXCEPT ![3] = IF s[3] = 0 THEN 0 ELSE s[3] - 1]

----------------------------------------------------------------------------
(* The blocks of src/model.py.                                             *)

DeviceCheck(d1, d2, r) == IF d1 # d2 THEN Fail("device") ELSE r

\* DownsampleBlock: Conv2d -> InstanceNorm2d -> GLU on the value branch and on
\* the gate branch, then value * sigmoid(gate).
DownsampleBranch(s, dim_in, dim_out, kh, kw, sh, sw, ph, pw, strict) ==
    LET conv == Conv2d(s, dim_in, dim_out, kh, kw, sh, sw, ph, pw)
        norm == Then(conv, LAMBDA t : InstanceNorm(t, dim_out, strict))
    IN Then(norm, GLU)

DownsampleBlock(s, dim_in, dim_out, kh, kw, sh, sw, ph, pw, strict) ==
    LET conv_layer == DownsampleBranch(s, dim_in, dim_out, kh, kw, sh, sw, ph, pw, strict)
        conv_gated == DownsampleBranch(s, dim_in, dim_out, kh, kw, sh, sw, ph, pw, strict)
    IN IF ~IsOk(conv_layer) THEN conv_layer
       ELSE IF ~IsOk(conv_gated) THEN conv_gated
       ELSE Broadcast(conv_layer.shape, conv_gated.shape)

\* UpSampleBlock: ConvTranspose2d -> PixelShuffle(2) -> GLU on both branches,
\* then value * sigmoid(gate).
UpSampleBranchNoShuffle(s, dim_in, dim_out, k, st, p) ==
    Then(ConvTranspose2d(s, dim_in, dim_out, k, st, p), GLU)
UpSampleBranch(s, dim_in, dim_out, k, st, p) ==
    LET conv == ConvTranspose2d(s, dim_in, dim_out, k, st, p)
        shuf == Then(conv, LAMBDA t : PixelShuffle(t, 2))
    IN Then(shuf, GLU)

UpSampleBlock(s, dim_in, dim_out, k, st, p) ==
    LET conv_layer == UpSampleBranch(s, dim_in, dim_out, k, st, p)
        conv_gated == UpSampleBranch(s, dim_in, dim_out, k, st, p)
    IN IF ~IsOk(conv_layer) THEN conv_layer
       ELSE IF ~IsOk(conv_gated) THEN conv_gated
       ELSE Broadcast(conv_layer.shape, conv_gated.shape)

\* AdaptiveInstanceNormalization.forward(x, c): c sits on c_dev, the weights
\* of fc (and x) on w_dev.
AdaIN(s, c, c_dev, w_dev, dim_in, style_num) ==
    LET fc == DeviceCheck(c_dev, w_dev, Linear(c, style_num, dim_in * 2))
    IN IF ~IsOk(fc) THEN fc
       ELSE IF Len(fc.shape) # 2 \/ Len(s) # 3 THEN Fail("shape")
       ELSE LET h == <<fc.shape[1], fc.shape[2], 1>>
                u == MeanDim2Keep(s)
                xu == Broadcast(s, u)
                std == u
                gamma == [h EXCEPT ![2] = h[2] \div 2]
                beta == gamma
                scaled == Then(xu, LAMBDA t : Broadcast(gamma, t))
                normed == Then(scaled, LAMBDA t : Broadcast(t, std))
            IN Then(normed, LAMBDA t : Broadcast(t, beta))

\* ResidualBlock.forward(x, c_): Conv1d -> AdaIN -> GLU, then x + x_.
ResidualBlockNoGLU(s, c, c_dev, w_dev, dim_in, dim_out, k, st, p, style_num) ==
    LET conv == Conv1d(s, dim_in, dim_out, k, st, p)
        adain == Then(conv, LAMBDA t : AdaIN(t, c, c_dev, w_dev, dim_out, style_num))
    IN Then(adain, LAMBDA t : Broadcast(s, t))
ResidualBlock(s, c, c_dev, w_dev, dim_in, dim_out, k, st, p, style_num) ==
    LET conv == Conv1d(s, dim_in, dim_out, k, st, p)
        adain == Then(conv, LAMBDA t : AdaIN(t, c, c_dev, w_dev, dim_out, style_num))
        glu == Then(adain, GLU)
    IN Then(glu, LAMBDA t : Broadcast(s, t))

\* The residual block that each of the nine bottleneck statements of
\* Generator.forward calls, in statement order.
ResidualCallOrder == <<1, 2, 1, 1, 1, 1, 1, 1, 1>>

\* The residual blocks that Generator.__init__ builds.
ResidualBlocksBuilt == 1..9

----------------------------------------------------------------------------
(* Construction and the caller's inputs.                                   *)

\* The device recorded by __init__: cuda:0 when available, else cpu.
RecordedDevice == IF cuda_available THEN "cuda" ELSE "cpu"

Devices == IF cuda_available THEN {"cpu", "cuda"} ELSE {"cpu"}

\* Height of the spectral feature maps the generator is built for.
NumFeatures == 35

CondWidths == 0..(2 * MaxSpeakers + 1)

\* Inputs with well-formed conditions, every height and width.
ShapeSweep ==
    {[x |-> <<b, 1, h, w>>, c |-> <<b, num_speakers>>, c_ |-> <<b, num_speakers>>,
      x_dev |-> "cpu", c_dev |-> "cpu", c__dev |-> "cpu"] :
        b \in 1..MaxBatch, h \in 1..MaxHeight, w \in 1..MaxWidth}

\* Inputs of the feature height, every pair of 2-D condition shapes.
CondSweep ==
    {[x |-> <<b, 1, NumFeatures, w>>, c |-> <<s[1], s[2]>>, c_ |-> <<s[3], s[4]>>,
      x_dev |-> "cpu", c_dev |-> "cpu", c__dev |-> "cpu"] :
        b \in 1..MaxBatch, w \in {v \in 1..MaxWidth : v % 4 = 0},
        s \in (1..MaxBatch) \X CondWidths \X (1..MaxBatch) \X CondWidths}

\* Well-formed inputs, every placement of x, c and c_.
PlacementSweep ==
    {[x |-> <<b, 1, NumFeatures, w>>, c |-> <<b, num_speakers>>, c_ |-> <<b, num_speakers>>,
      x_dev |-> d[1], c_dev |-> d[2], c__dev |-> d[3]] :
        b \in 1..MaxBatch, w \in {v \in 1..MaxWidth : v % 4 = 0},
        d \in Devices \X Devices \X Devices}

Inputs == IF cuda_available THEN PlacementSweep ELSE ShapeSweep \cup CondSweep

NoAux == [x_ |-> <<>>, h |-> <<>>, p |-> <<>>]

Init ==
    /\ num_speakers \in 1..MaxSpeakers
    /\ cuda_available \in BOOLEAN
    /\ weights_device \in Devices
    /\ strict_norm \in BOOLEAN
    /\ net = "G"
    /\ pc = 0
    /\ args = [x |-> <<>>, c |-> <<>>, c_ |-> <<>>,
               x_dev |-> "cpu", c_dev |-> "cpu", c__dev |-> "cpu"]
    /\ x = <<>>
    /\ x_in = <<>>
    /\ x_alias = "none"
    /\ c_onehot = <<>>
    /\ aux = NoAux
    /\ status = "idle"
    /\ err = "none"
    /\ out = <<>>
    /\ applied = <<>>
    /\ mutated = {}

Config == <<num_speakers, cuda_available, weights_device, strict_norm>>

\* A caller invokes module(x, c, c_) on a module that is not running.
Call ==
    /\ status = "idle"
    /\ \E m \in {"G", "D"}, a \in Inputs :
         /\ net' = m
         /\ args' = a
         /\ x' = a.x
    /\ pc' = 1
    /\ x_in' = <<>>
    /\ x_alias' = "caller_x"
    /\ c_onehot' = <<>>
    /\ aux' = NoAux
    /\ status' = "running"
    /\ err' = "none"
    /\ out' = <<>>
    /\ applied' = <<>>
    /\ UNCHANGED <<Config, mutated>>

\* The call is over: its frame and the tensors it allocated are dropped, and
\* the module is ready for the next call.
Release ==
    /\ status \in {"returned", "raised"}
    /\ status' = "idle"
    /\ net' = "G"
    /\ pc' = 0
    /\ args' = [x |-> <<>>, c |-> <<>>, c_ |-> <<>>,
                x_dev |-> "cpu", c_dev |-> "cpu", c__dev |-> "cpu"]
    /\ x' = <<>>
    /\ x_in' = <<>>
    /\ x_alias' = "none"
    /\ c_onehot' = <<>>
    /\ aux' = NoAux
    /\ err' = "none"
    /\ out' = <<>>
    /\ applied' = <<>>
    /\ UNCHANGED <<Config, mutated>>

At(m, k) == status = "running" /\ net = m /\ pc = k

\* The statement raised: forward is left with the library's error.
Raise(r) ==
    /\ status' = "raised"
    /\ err' = r.err
    /\ UNCHANGED <<pc, x, x_alias, c_onehot, aux, out, applied, mutated>>

\* Buffers that the instance-norm layers of a statement update.
NormBuffers == IF TrackRunningStats THEN {"buffers"} ELSE {}

\* x = f(x): the local name x is bound to a new tensor of shape r.shape.
Assign(r, written, app) ==
    /\ x_in' = x
    /\ UNCHANGED <<Config, net, args>>
    /\ IF IsOk(r)
       THEN /\ x' = r.shape
            /\ x_alias' = "temp"
            /\ pc' = pc + 1
            /\ mutated' = mutated \cup written
            /\ applied' = app
            /\ UNCHANGED <<status, err, c_onehot, aux, out>>
       ELSE Raise(r)

\* x = x.view(...): the local name x is bound to a view of the same storage.
AssignView(r) ==
    /\ x_in' = x
    /\ UNCHANGED <<Config, net, args>>
    /\ IF IsOk(r)
       THEN /\ x' = r.shape
            /\ pc' = pc + 1
            /\ UNCHANGED <<status, err, x_alias, c_onehot, aux, out, applied, mutated>>
       ELSE Raise(r)

\* c_onehot = torch.cat((c, c_), dim=1).to(self.device)
CatOnehot(m) ==
    /\ At(m, 1)
    /\ x_in' = x
    /\ UNCHANGED <<Config, net, args>>
    /\ LET r == DeviceCheck(args.c_dev, args.c__dev, Cat1(args.c, args.c_))
       IN IF IsOk(r)
          THEN /\ c_onehot' = r.shape
               /\ pc' = pc + 1
               /\ UNCHANGED <<status, err, x, x_alias, aux, out, applied, mutated>>
          ELSE Raise(r)

----------------------------------------------------------------------------
(* Generator.forward, statement by statement.                              *)

G_cat == CatOnehot("G")

\* x = self.conv_layer_1(x)
G_conv_layer_1 ==
    /\ At("G", 2)
    /\ Assign(DeviceCheck(args.x_dev, weights_device,
                          Then(Conv2d(x, 1, 128, 5, 15, 1, 1, 2, 7), GLU)),
              {}, applied)

\* x = self.down_sample_1(x)
G_down_sample_1 ==
    /\ At("G", 3)
    /\ Assign(DownsampleBlock(x, 64, 256, 5, 5, 2, 2, 2, 2, strict_norm),
              NormBuffers, applied)

\* x = self.down_sample_2(x)
G_down_sample_2 ==
    /\ At("G", 4)
    /\ Assign(DownsampleBlock(x, 128, 512, 5, 5, 2, 2, 2, 2, strict_norm),
              NormBuffers, applied)

\* width_size = x.size(3), read from the caller's x before x is rebound.
WidthSize == args.x[4]

\* x = x.contiguous().view(-1, 2304, width_size // 4)
G_view_2304 ==
    /\ At("G", 5)
    /\ AssignView(ViewInfer(x, <<2304, WidthSize \div 4>>))

\* x = self.down_conversion(x)
G_down_conversion ==
    /\ At("G", 6)
    /\ Assign(Then(Conv1d(x, 2304, 256, 1, 1, 0),
                   LAMBDA t : InstanceNorm(t, 256, strict_norm)),
              NormBuffers, applied)

\* x = self.residual_k(x, c_onehot), the nine bottleneck statements.
FirstResidualPc == 7
LastResidualPc == 15
G_residual ==
    /\ status = "running" /\ net = "G"
    /\ pc \in FirstResidualPc..LastResidualPc
    /\ Assign(ResidualBlock(x, c_onehot, RecordedDevice, weights_device,
                            256, 512, 5, 1, 2, num_speakers * 2),
              {}, Append(applied, ResidualCallOrder[pc - FirstResidualPc + 1]))

\* x = self.up_conversion(x)
G_up_conversion ==
    /\ At("G", 16)
    /\ Assign(Conv1d(x, 256, 2304, 1, 1, 0), {}, applied)

\* x = x.view(-1, 256, 9, width_size // 4)
G_view_256_9 ==
    /\ At("G", 17)
    /\ AssignView(ViewInfer(x, <<256, 9, WidthSize \div 4>>))

\* x = self.up_sample_1(x)
G_up_sample_1 ==
    /\ At("G", 18)
    /\ Assign(UpSampleBlock(x, 256, 1024, 5, 1, 2), {}, applied)

\* x = self.up_sample_2(x)
G_up_sample_2 ==
    /\ At("G", 19)
    /\ Assign(UpSampleBlock(x, 128, 512, 5, 1, 2), {}, applied)

\* out = self.out(x)
G_out ==
    /\ At("G", 20)
    /\ Assign(Conv2d(x, 64, 1, 5, 15, 1, 1, 2, 7), {}, applied)

\* out_reshaped = out[:, :, : -1, :]; return out_reshaped
G_return ==
    /\ At("G", 21)
    /\ x_in' = x
    /\ out' = DropLastRow(x)
    /\ status' = "returned"
    /\ UNCHANGED <<Config, net, args, pc, x, x_alias, c_onehot, aux, err, applied, mutated>>

----------------------------------------------------------------------------
(* Discriminator.forward, statement by statement.                          *)

D_cat == CatOnehot("D")

\* x = self.conv_layer_1(x) * torch.sigmoid(self.conv_gated_1(x))
D_conv_layer_1 ==
    /\ At("D", 2)
    /\ LET conv_layer == Then(Conv2d(x, 1, 128, 3, 3, 1, 1, 1, 1), GLU)
           conv_gated == Then(Conv2d(x, 1, 128, 3, 3, 1, 1, 1, 1), GLU)
           prod == IF ~IsOk(conv_layer) THEN conv_layer
                   ELSE Then(conv_gated, LAMBDA t : Broadcast(conv_layer.shape, t))
       IN Assign(DeviceCheck(args.x_dev, weights_device, prod), {}, applied)

\* x = self.down_sample_1(x)
D_down_sample_1 ==
    /\ At("D", 3)
    /\ Assign(DownsampleBlock(x, 64, 256, 3, 3, 2, 2, 1, 1, strict_norm),
              NormBuffers, applied)

\* x = self.down_sample_2(x)
D_down_sample_2 ==
    /\ At("D", 4)
    /\ Assign(DownsampleBlock(x, 128, 512, 3, 3, 2, 2, 1, 1, strict_norm),
              NormBuffers, applied)

\* x = self.down_sample_3(x)
D_down_sample_3 ==
    /\ At("D", 5)
    /\ Assign(DownsampleBlock(x, 256, 1024, 3, 3, 2, 2, 1, 1, strict_norm),
              NormBuffers, applied)

\* A statement that binds a local other than x.
AssignAux(r, field, written) ==
    /\ x_in' = x
    /\ UNCHANGED <<Config, net, args>>
    /\ IF IsOk(r)
       THEN /\ aux' = [aux EXCEPT ![field] = r.shape]
            /\ pc' = pc + 1
            /\ mutated' = mutated \cup written
            /\ UNCHANGED <<status, err, x, x_alias, c_onehot, out, applied>>
       ELSE Raise(r)

\* x_ = self.down_sample_4(x)
D_down_sample_4 ==
    /\ At("D", 6)
    /\ AssignAux(DownsampleBlock(x, 512, 1024, 1, 5, 1, 1, 0, 2, strict_norm),
                 "x_", NormBuffers)

\* h = torch.sum(x_, dim=(2, 3))
D_sum_pool ==
    /\ At("D", 7)
    /\ AssignAux(Ok(SumPool(aux.x_)), "h", {})

\* x = self.fully_connected(h)
D_fully_connected ==
    /\ At("D", 8)
    /\ Assign(Linear(aux.h, 512, 1), {}, applied)

\* p = self.projection(c_onehot)
D_projection ==
    /\ At("D", 9)
    /\ AssignAux(DeviceCheck(RecordedDevice, weights_device,
                             Linear(c_onehot, num_speakers * 2, 512)),
                 "p", {})

\* The storage that the in-place addition of line 391 writes: the tensor the
\* local name x is bound to.
InPlaceTargetCallerX == "caller_x"
InPlaceTarget == x_alias

\* x += torch.sum(p * h, dim=1, keepdim=True); return x
D_add_return ==
    /\ At("D", 10)
    /\ x_in' = x
    /\ UNCHANGED <<Config, net, args>>
    /\ LET term == Then(Broadcast(aux.p, aux.h), LAMBDA t : Ok(SumDim1Keep(t)))
           sum == Then(term, LAMBDA t : Broadcast(x, t))
           r == IF IsOk(sum) /\ sum.shape # x THEN Fail("shape") ELSE sum
       IN IF IsOk(r)
          THEN /\ out' = x
               /\ status' = "returned"
               /\ mutated' = mutated \cup (IF InPlaceTarget = "caller_x" THEN {"x"} ELSE {})
               /\ UNCHANGED <<pc, x, x_alias, c_onehot, aux, err, applied>>
          ELSE Raise(r)

----------------------------------------------------------------------------

Next ==
    \/ Call \/ Release
    \/ G_cat \/ G_conv_layer_1 \/ G_down_sample_1 \/ G_down_sample_2
    \/ G_view_2304 \/ G_down_conversion \/ G_residual \/ G_up_conversion
    \/ G_view_256_9 \/ G_up_sample_1 \/ G_up_sample_2 \/ G_out \/ G_return
    \/ D_cat \/ D_conv_layer_1 \/ D_down_sample_1 \/ D_down_sample_2
    \/ D_down_sample_3 \/ D_down_sample_4 \/ D_sum_pool \/ D_fully_connected
    \/ D_projection \/ D_add_return

Spec == Init /\ [][Next]_vars

----------------------------------------------------------------------------
(* Vocabulary of the properties.                                           *)

Done == status \in {"returned", "raised"}
BatchSize == args.x[1]
Height == args.x[3]
Width == args.x[4]

\* c and c_ both have shape (B, num_speakers).
WellFormedConds ==
    /\ args.c = <<BatchSize, num_speakers>>
    /\ args.c_ = <<BatchSize, num_speakers>>

\* x, c, c_ and the weights all sit on one device.
OneDevice ==
    /\ args.x_dev = weights_device
    /\ args.c_dev = weights_device
    /\ args.c__dev = weights_device

\* ... and that device is the one recorded at construction.
OnRecordedDevice == OneDevice /\ weights_device = RecordedDevice

\* x has shape (B, 1, 35, W) with W a positive multiple of 4.
GeneratorContract ==
    /\ net = "G" /\ status # "idle"
    /\ Height = NumFeatures /\ Width % 4 = 0
    /\ WellFormedConds

DiscriminatorContract ==
    /\ net = "D" /\ status # "idle"
    /\ WellFormedConds

\* The shape of x after each statement of Generator.forward, by the layer
\* arithmetic, for an input (B, 1, 35, W): pc is the next statement.
GeneratorShapeAt(k) ==
    LET B == BatchSize
        T == Width \div 4
    IN CASE k = 2 -> <<B, 1, 35, Width>>
         [] k = 3 -> <<B, 64, 35, Width>>
         [] k = 4 -> <<B, 128, 18, Width \div 2>>
         [] k = 5 -> <<B, 256, 9, T>>
         [] k = 6 -> <<B, 2304, T>>
         [] k \in 7..16 -> <<B, 256, T>>
         [] k = 17 -> <<B, 2304, T>>
         [] k = 18 -> <<B, 256, 9, T>>
         [] k = 19 -> <<B, 128, 18, 2 * T>>
         [] k = 20 -> <<B, 64, 36, 4 * T>>
         [] OTHER -> <<B, 1, 36, 4 * T>>

----------------------------------------------------------------------------
(* C1: Generator.forward maps x of shape (B, 1, 35, W), W a positive       *)
(* multiple of 4, with conditions of shape (B, num_speakers), to an output *)
(* of the input's shape.                                                   *)

\* C1 as stated: every such call, with all tensors where the weights are and
\* on the recorded device, returns a tensor of the input's shape.
C1_AsStated ==
    (GeneratorContract /\ OnRecordedDevice /\ Done)
        => (status = "returned" /\ out = args.x)

\* C1 as amended: for W a multiple of 4 with W >= 8 no statement raises a
\* shape or spatial-size error, every intermediate shape is the one the layer
\* arithmetic gives, the call returns whenever all tensors and the weights
\* are on the recorded device, and every returned tensor has the input's
\* shape (B, 1, 35, W).
C1_GeneratorShape ==
    (GeneratorContract /\ Width >= 8) =>
        /\ err \in {"none", "device"}
        /\ (status = "raised" => ~OnRecordedDevice)
        /\ (status = "running" /\ pc >= 2 => x = GeneratorShapeAt(pc))
        /\ (status = "returned" => out = args.x /\ out = <<BatchSize, 1, 35, Width>>)

C1_Witness ==
    /\ GeneratorContract /\ Width >= 8 /\ BatchSize > 1
    /\ status = "returned" /\ out = args.x

----------------------------------------------------------------------------
(* C2: Discriminator.forward returns one score per sample: shape (B, 1)    *)
(* for x of shape (B, 1, H, W) and conditions of shape (B, num_speakers).  *)

\* C2 as stated: for every H, W >= 1 the call returns shape (B, 1).
C2_AsStated ==
    (DiscriminatorContract /\ OnRecordedDevice /\ Done)
        => (status = "returned" /\ out = <<BatchSize, 1>>)

\* C2 as amended: when H > 8 or W > 8 (so that every instance-normalised map
\* has more than one spatial element) no statement raises a shape or
\* spatial-size error, the pooled tensor h has shape (B, 512), the call
\* returns whenever all tensors and the weights are on the recorded device,
\* and every returned tensor has shape (B, 1).
C2_DiscriminatorShape ==
    (DiscriminatorContract /\ (Height > 8 \/ Width > 8)) =>
        /\ err \in {"none", "device"}
        /\ (status = "raised" => ~OnRecordedDevice)
        /\ (status = "running" /\ pc >= 8 => aux.h = <<BatchSize, 512>>)
        /\ (status = "running" /\ pc >= 9 => x = <<BatchSize, 1>>)
        /\ (status = "returned" => out = <<BatchSize, 1>>)

C2_Witness ==
    /\ DiscriminatorContract /\ Height > 8 /\ Width = 1 /\ BatchSize > 1
    /\ status = "returned" /\ out = <<BatchSize, 1>>

----------------------------------------------------------------------------
(* C3: with mutually consistent shapes the forward pass completes for      *)
(* every placement of the weights and of the inputs.                       *)

\* C3 as stated, for the placements that keep x, c, c_ and the weights on one
\* device, and for shapes that every build accepts: the call returns.
C3_AsStated ==
    (/\ GeneratorContract \/ DiscriminatorContract
     /\ Height = NumFeatures /\ Width >= 8
     /\ OneDevice /\ Done)
        => status = "returned"

----------------------------------------------------------------------------
(* C4: a forward pass leaves the caller's x, c, c_, the parameters and the *)
(* buffers of the module unchanged, whether it returns or raises.          *)

\* C4: after any sequence of calls nothing visible to the caller has been
\* written in place, and an idle module holds nothing of the last call.
C4_NoSideEffects ==
    /\ mutated = {}
    /\ (status = "idle" => x = <<>> /\ c_onehot = <<>> /\ aux = NoAux /\ applied = <<>>)

C4_Witness ==
    /\ net = "D" /\ status = "returned" /\ x_alias = "temp" /\ mutated = {}

----------------------------------------------------------------------------
(* C5: which condition shapes a forward pass accepts.                      *)

\* The conditions torch.cat and the broadcasting rules let through: equal
\* batch sizes Bc, widths that sum to 2 * num_speakers, and Bc = B or Bc = 1
\* (in the generator also B = 1, where the batch of x is broadcast to Bc).
AcceptedConds ==
    /\ args.c[1] = args.c_[1]
    /\ args.c[2] + args.c_[2] = 2 * num_speakers
    /\ \/ args.c[1] = BatchSize
       \/ args.c[1] = 1
       \/ net = "G" /\ BatchSize = 1

\* x has the feature height and a width every build accepts.
AcceptedInput ==
    /\ status # "idle"
    /\ Height = NumFeatures /\ Width % 4 = 0 /\ Width >= 8

\* C5 as stated: a call (here with conditions of non-zero width) returns only
\* when c and c_ both have shape (B, num_speakers).
C5_AsStated ==
    (status = "returned" /\ args.c[2] >= 1 /\ args.c_[2] >= 1) => WellFormedConds

\* C5 as amended: on an accepted x, with all tensors and the weights on the
\* recorded device, the call returns exactly when c and c_ have the same
\* batch size Bc, widths summing to 2 * num_speakers, and Bc = B or Bc = 1
\* (Generator: or B = 1); every other pair of 2-D condition shapes ends in a
\* shape mismatch error.
C5_AcceptedConditions ==
    (AcceptedInput /\ OnRecordedDevice /\ Done) =>
        /\ (status = "returned" <=> AcceptedConds)
        /\ (status = "raised" => err = "shape")

C5_Witness ==
    /\ AcceptedInput /\ net = "D" /\ status = "returned"
    /\ args.c[1] = 1 /\ BatchSize > 1
    /\ args.c[2] # args.c_[2]

----------------------------------------------------------------------------
(* C6: Generator.forward never returns a tensor whose batch size differs   *)
(* from the batch size B of x when the conditions have batch size B.       *)

\* C6 as stated, for the widths that are multiples of 4: a returned tensor
\* has the batch size of x.
C6_AsStated ==
    (/\ net = "G" /\ status = "returned"
     /\ args.c[1] = BatchSize /\ args.c_[1] = BatchSize
     /\ Width % 4 = 0)
        => out[1] = BatchSize

----------------------------------------------------------------------------
(* C7: the bottleneck applies residual_1 .. residual_9 once each, in index *)
(* order.                                                                  *)

\* C7 as stated: a returned call has applied blocks 1, 2, ..., 9 in order, so
\* every block the constructor builds was applied exactly once.
C7_AsStated ==
    (net = "G" /\ status = "returned") =>
        /\ applied = [i \in 1..9 |-> i]
        /\ \A b \in ResidualBlocksBuilt :
             Cardinality({i \in 1..Len(applied) : applied[i] = b}) = 1

----------------------------------------------------------------------------
(* C8: ResidualBlock.forward keeps the shape (B, 256, T) for a condition   *)
(* of shape (B, style_num).                                                *)

ResidualPcs == FirstResidualPc..LastResidualPc

\* The condition handed to the residual statements matches the batch of the
\* tensor the last statement received.
ResidualCondMatches ==
    /\ Len(x_in) = 3
    /\ c_onehot = <<x_in[1], num_speakers * 2>>

\* C8: a residual statement that received x of shape (B, 256, T), T >= 1, and
\* a condition of shape (B, 2 * num_speakers) raises no shape error, returns
\* whenever the condition is on the device of the weights, and leaves x with
\* the shape it received; so the shape is (B, 256, T) after any number of
\* the nine statements.
C8_ResidualKeepsShape ==
    (net = "G" /\ status # "idle" /\ ResidualCondMatches) =>
        /\ (status = "running" /\ pc - 1 \in ResidualPcs =>
               x = x_in /\ Len(x) = 3 /\ x[2] = 256 /\ x[3] = Width \div 4)
        /\ (status = "raised" /\ pc \in ResidualPcs =>
               err = "device" /\ RecordedDevice # weights_device)

C8_Witness ==
    /\ net = "G" /\ status = "running" /\ pc = LastResidualPc + 1
    /\ ResidualCondMatches /\ Len(applied) = 9
    /\ x = <<2, 256, 1>>

----------------------------------------------------------------------------
(* C9: DownsampleBlock.forward halves height and width (rounding up) and   *)
(* returns dim_out / 2 channels.                                           *)

\* The stride-2 blocks: statement -> <<dim_in, dim_out>>.
DownsampleAt(m, k) ==
    CASE m = "G" /\ k = 3 -> <<64, 256>>
      [] m = "G" /\ k = 4 -> <<128, 512>>
      [] m = "D" /\ k = 3 -> <<64, 256>>
      [] m = "D" /\ k = 4 -> <<128, 512>>
      [] m = "D" /\ k = 5 -> <<256, 1024>>
      [] OTHER -> <<>>

CeilHalf(n) == (n + 1) \div 2

\* The block of statement k is next and receives dim_in channels.
DownsampleFed(k) ==
    (status = "running" /\ pc = k) => x[2] = DownsampleAt(net, k)[1]

\* The block of statement k has run and returned the halved shape.
DownsampleHalved(k) ==
    (status = "running" /\ pc = k + 1) =>
        x = <<x_in[1], DownsampleAt(net, k)[2] \div 2, CeilHalf(x_in[3]), CeilHalf(x_in[4])>>

\* C9 as stated: no stride-2 block ever raises, each returns
\* (B, dim_out / 2, ceil(h / 2), ceil(w / 2)) and is fed dim_in channels.
C9_AsStated ==
    \A k \in 3..5 :
        (status # "idle" /\ DownsampleAt(net, k) # <<>>) =>
            /\ DownsampleFed(k)
            /\ DownsampleHalved(k)
            /\ ~(status = "raised" /\ pc = k)

\* C9 as amended: each stride-2 block is fed dim_in channels and returns
\* (B, dim_out / 2, ceil(h / 2), ceil(w / 2)) for every input with h > 2 or
\* w > 2; for h, w <= 2, where the halved map has one spatial element, it
\* returns that shape on builds whose instance norm does not verify the
\* spatial size and raises the spatial-size error on builds that do.
C9_DownsampleShape ==
    \A k \in 3..5 :
        (status # "idle" /\ DownsampleAt(net, k) # <<>>) =>
            /\ DownsampleFed(k)
            /\ DownsampleHalved(k)
            /\ (status = "raised" /\ pc = k =>
                   err = "spatial" /\ strict_norm /\ x[3] <= 2 /\ x[4] <= 2)
            /\ (status = "running" /\ pc = k + 1 /\ x_in[3] <= 2 /\ x_in[4] <= 2
                   => ~strict_norm)

C9_Witness ==
    /\ net = "D" /\ status = "running" /\ pc = 6
    /\ x_in[3] = 5 /\ x_in[4] = 3
    /\ x = <<x_in[1], 512, 3, 2>>

----------------------------------------------------------------------------
(* C10: UpSampleBlock.forward doubles height and width and returns         *)
(* dim_out / 8 channels; the generator returns height 35 and width         *)
(* 4 * (W // 4).                                                           *)

UpSampleAt(k) ==
    CASE k = 18 -> <<256, 1024>>
      [] k = 19 -> <<128, 512>>
      [] OTHER -> <<>>

\* C10: each up-sampling block is fed dim_in channels, never raises, and maps
\* (B, dim_in, h, w) to (B, dim_out / 8, 2h, 2w); the two blocks turn
\* (B, 256, 9, T) into (B, 64, 36, 4T), the 64 channels the final convolution
\* expects, and every returned tensor has 1 channel, height 35 and width
\* 4 * (W // 4).
C10_UpSampleShape ==
    (net = "G" /\ status # "idle") =>
        /\ \A k \in 18..19 :
             /\ (status = "running" /\ pc = k =>
                    x[2] = UpSampleAt(k)[1])
             /\ (status = "running" /\ pc = k + 1 =>
                    x = <<x_in[1], UpSampleAt(k)[2] \div 8, 2 * x_in[3], 2 * x_in[4]>>)
             /\ ~(status = "raised" /\ pc = k)
        /\ (status = "running" /\ pc = 18 => x[3] = 9 /\ x[4] = Width \div 4)
        /\ (status = "running" /\ pc = 20 =>
               x[2] = 64 /\ x[3] = 36 /\ x[4] = 4 * (Width \div 4))
        /\ ~(status = "raised" /\ pc \in 20..21)
        /\ (status = "returned" =>
               out[2] = 1 /\ out[3] = 35 /\ out[4] = 4 * (Width \div 4))

C10_Witness ==
    /\ net = "G" /\ status = "returned"
    /\ Width % 4 # 0
    /\ out[3] = 35 /\ out[4] = 4 * (Width \div 4)

====
